---- MODULE Spec2Model ----
(***************************************************************************)
(* The task tracker of the ingestion server (ingestion_server/tasks.py):   *)
(* the TaskTracker registry kept by the parent process, and the Task       *)
(* worker processes whose shared cells the registry reads.                 *)
(***************************************************************************)
EXTENDS Integers, Sequences, FiniteSets, TLC

\* ------------------------------------------------------------------ bounds
\* Number of Task objects the caller constructs and registers.
MaxTasks == 2

\* --------------------------------------------------------------- constants
\* class TaskTypes(Enum)
TaskTypes == {"REINDEX", "UPDATE_INDEX", "INGEST_UPSTREAM", "LOAD_TEST_DATA"}
\* Task.__init__ stores whatever task_type it is given; "OTHER" stands for a
\* value that is no member of TaskTypes.
AnyTaskType == TaskTypes \cup {"OTHER"}
\* Datasets a task is submitted for; "audio" is the one Task.run singles out.
Models == {"audio", "image"}
\* callback_url: "" (falsy, none supplied) or a URL.
CallbackUrls == {"", "http://cb"}
SinceDate == "since"
\* Task identifiers callers supply (the caller may reuse one).
TaskIds == {"t1", "t2"}

\* Value("d", 0.0): the cells the caller creates for a new task.
NewCell == 0
\* A percent-complete value the indexer reports on its way from 0 to 100.
MidProgress == 50
\* The percent-complete value that means the work is complete.
FullProgress == 100

VARIABLES
    task,              \* task[p]: the attributes Task.__init__ stored for worker p
    pc,                \* pc[p]: where worker p is ("created" until start())
    progress,          \* progress[p]: the percent-complete cell of worker p
    finish_time,       \* finish_time[p]: the finish-timestamp cell of worker p
    active_workers,    \* active_workers[p]: the active-worker-count cell of worker p
    trace,             \* trace[p]: collaborator calls and exceptions of worker p, in order
    now,               \* the clock dt.datetime.utcnow() reads
    id_task,           \* TaskTracker.id_task: insertion-ordered <<id, worker>> items
    id_action,         \* TaskTracker.id_action
    id_progress,       \* TaskTracker.id_progress (the cell's owner)
    id_start_time,     \* TaskTracker.id_start_time
    id_finish_time,    \* TaskTracker.id_finish_time (the cell's owner)
    id_active_workers, \* TaskTracker.id_active_workers (the cell's owner)
    lpc,               \* list_task_statuses: the line the call is at, or "idle"
    lpos,              \* list_task_statuses: index of the item the loop is at
    lpercent,          \* list_task_statuses: local percent_completed
    results,           \* list_task_statuses: local results
    ret                \* what the step just taken returned to its caller

cells == <<progress, finish_time, active_workers>>
registry == <<id_task, id_action, id_progress, id_start_time, id_finish_time,
              id_active_workers>>
frame == <<lpc, lpos, lpercent, results>>
vars == <<task, pc, trace, now, cells, registry, frame, ret>>

Procs == 1 .. Len(task)
NoValue == [op |-> "none", value |-> <<>>]

\* ----------------------------------------------------------------- helpers
\* A dict as a function from its keys.
EmptyDict == [k \in {} |-> 0]
DictSet(d, k, v) == [x \in (DOMAIN d) \cup {k} |-> IF x = k THEN v ELSE d[x]]

\* An assignment that always adds an item, as a list of pairs would.
ItemsSetAppending(items, k, v) == Append(items, <<k, v>>)

\* An insertion-ordered dict as a sequence of <<key, value>> items:
\* assigning to a key it holds keeps the key's place.
HasKey(items, k) == \E i \in 1 .. Len(items) : items[i][1] = k
ItemsSet(items, k, v) ==
    IF HasKey(items, k)
    THEN [i \in 1 .. Len(items) |-> IF items[i][1] = k THEN <<k, v>> ELSE items[i]]
    ELSE Append(items, <<k, v>>)
Keys(items) == {items[i][1] : i \in 1 .. Len(items)}
Lookup(items, k) == items[CHOOSE i \in 1 .. Len(items) : items[i][1] = k][2]

\* A liveness test that never notices the exit.
IsAliveOnceStarted(p) == pc[p] # "created"

\* Process.is_alive(): started and not yet exited.
IsAlive(p) == pc[p] \notin {"created", "done", "crashed"}
Exited(p) == pc[p] \in {"done", "crashed"}

\* ------------------------------------------------------------ TaskTracker
\* A pruning hook that drops the tasks whose process has exited.
PruneExited(items) == SelectSeq(items, LAMBDA it : ~Exited(it[2]))

\* TaskTracker._prune_old_tasks: pass
PruneOldTasks(items) == items

\* add_task also starting the worker process it registers.
AddTaskStarting(task_id, task_type, model, callback_url) ==
    /\ lpc = "idle"
    /\ Len(task) < MaxTasks
    /\ LET p == Len(task) + 1 IN
       /\ task' = Append(task, [model |-> model, task_type |-> task_type,
                                since_date |-> SinceDate, task_id |-> task_id,
                                callback_url |-> callback_url])
       /\ pc' = Append(pc, "l116")
       /\ progress' = Append(progress, NewCell)
       /\ finish_time' = Append(finish_time, NewCell)
       /\ active_workers' = Append(active_workers, NewCell)
       /\ trace' = Append(trace, <<>>)
       /\ now' = now + 1
       /\ id_task' = ItemsSet(PruneOldTasks(id_task), task_id, p)
       /\ id_action' = DictSet(id_action, task_id, task_type)
       /\ id_progress' = DictSet(id_progress, task_id, p)
       /\ id_start_time' = DictSet(id_start_time, task_id, now)
       /\ id_finish_time' = DictSet(id_finish_time, task_id, p)
       /\ id_active_workers' = DictSet(id_active_workers, task_id, p)
       /\ ret' = [op |-> "add_task", value |-> task_id]
    /\ UNCHANGED frame

\* The caller constructs a Task with fresh cells and registers it:
\* Task.__init__ followed by TaskTracker.add_task.
AddTask(task_id, task_type, model, callback_url) ==
    /\ lpc = "idle"
    /\ Len(task) < MaxTasks
    /\ LET p == Len(task) + 1 IN
       /\ task' = Append(task, [model |-> model, task_type |-> task_type,
                                since_date |-> SinceDate, task_id |-> task_id,
                                callback_url |-> callback_url])
       /\ pc' = Append(pc, "created")
       /\ progress' = Append(progress, NewCell)
       /\ finish_time' = Append(finish_time, NewCell)
       /\ active_workers' = Append(active_workers, NewCell)
       /\ trace' = Append(trace, <<>>)
       /\ now' = now + 1
       /\ id_task' = ItemsSet(PruneOldTasks(id_task), task_id, p)
       /\ id_action' = DictSet(id_action, task_id, task_type)
       /\ id_progress' = DictSet(id_progress, task_id, p)
       /\ id_start_time' = DictSet(id_start_time, task_id, now)
       /\ id_finish_time' = DictSet(id_finish_time, task_id, p)
       /\ id_active_workers' = DictSet(id_active_workers, task_id, p)
       /\ ret' = [op |-> "add_task", value |-> task_id]
    /\ UNCHANGED frame

\* ----------------------------------------------------- list_task_statuses
\* The records in the order they were appended.
InsertionOrder(s) == s

\* sorted(results, key=lambda x: x["finish_time"]): a stable sort; the record
\* at place i goes behind the records with a smaller key and the earlier
\* records with the same key.
SortedByFinish(s) ==
    LET Rank(i) == Cardinality({j \in 1 .. Len(s) :
                      \/ s[j].finish_time < s[i].finish_time
                      \/ s[j].finish_time = s[i].finish_time /\ j <= i})
    IN [k \in 1 .. Len(s) |-> s[CHOOSE i \in 1 .. Len(s) : Rank(i) = k]]

\* A rendering without the test for 0.0: every value goes through to_utc.
RenderDateNoSentinel(x) == <<"utc", x>>

\* str(render_date(x)): "None" for 0.0, else the UTC date of the timestamp.
RenderDate(x) == IF x # 0 THEN <<"utc", x>> ELSE <<"None">>

\* Lines 82-86: the two dates of every record rendered.
Rendered(s) ==
    [i \in 1 .. Len(s) |->
        [s[i] EXCEPT !.start_time = RenderDate(s[i].start_time),
                     !.finish_time = RenderDate(s[i].finish_time)]]

\* The error field from the percent alone.
InferErrorIgnoresActive(percent_completed, active) ==
    percent_completed < FullProgress

\* The error field with "or" for "and".
InferErrorOr(percent_completed, active) ==
    percent_completed < FullProgress \/ ~active

\* Line 68: "error": percent_completed < 100 and not active
InferError(percent_completed, active) ==
    percent_completed < FullProgress /\ ~active

\* Lines 59-72: the record of one item, from the two values read at lines 57
\* and 58 and the reads of lines 59-61.
StatusRecord(_id, percent_completed, active) ==
    [task_id |-> _id,
     active |-> active,
     action |-> id_action[_id],
     progress |-> percent_completed,
     error |-> InferError(percent_completed, active),
     start_time |-> id_start_time[_id],
     finish_time |-> finish_time[id_finish_time[_id]],
     active_workers |-> active_workers[id_active_workers[_id]] # 0]

\* Lines 56-73: the loop over self.id_task.items(), run without a worker
\* taking a step in between.
CollectResults(items) ==
    [i \in 1 .. Len(items) |->
        StatusRecord(items[i][1], progress[id_progress[items[i][1]]],
                     IsAlive(items[i][2]))]

\* Lines 74-88: the records sorted and their dates rendered.
SortedResults(rs) == Rendered(SortedByFinish(rs))

\* A list_task_statuses that stamps the finish time of every task it finds
\* exited without one.
ListTaskStatusesStamping ==
    /\ lpc = "idle"
    /\ ret' = [op |-> "list_task_statuses",
               value |-> SortedResults(CollectResults(PruneOldTasks(id_task)))]
    /\ finish_time' = [q \in 1 .. Len(finish_time) |->
                          IF Exited(q) /\ finish_time[q] = 0
                          THEN now ELSE finish_time[q]]
    /\ UNCHANGED <<task, pc, trace, now, progress, active_workers, registry,
                   frame>>

\* list_task_statuses, lines 53-88, as one step of the parent.
ListTaskStatuses ==
    /\ lpc = "idle"
    /\ ret' = [op |-> "list_task_statuses",
               value |-> SortedResults(CollectResults(PruneOldTasks(id_task)))]
    /\ UNCHANGED <<task, pc, trace, now, cells, registry, frame>>

\* list_task_statuses read by read, for the calls a worker runs alongside.
\* Lines 53-56: the call begins; the loop is entered when there is an item.
ListBegin ==
    /\ lpc = "idle"
    /\ lpc' = IF PruneOldTasks(id_task) = <<>> THEN "l74" ELSE "l57"
    /\ lpos' = 1
    /\ results' = <<>>
    /\ ret' = NoValue
    /\ UNCHANGED <<task, pc, trace, now, cells, registry, lpercent>>

\* Line 57: percent_completed = self.id_progress[_id].value
ListReadProgress ==
    /\ lpc = "l57"
    /\ lpercent' = progress[id_progress[id_task[lpos][1]]]
    /\ lpc' = "l58"
    /\ ret' = NoValue
    /\ UNCHANGED <<task, pc, trace, now, cells, registry, lpos, results>>

\* Lines 58-73: active = task.is_alive(), the other reads, and the record
\* appended.
ListAppend ==
    /\ lpc = "l58"
    /\ results' = Append(results, StatusRecord(id_task[lpos][1], lpercent,
                                                IsAlive(id_task[lpos][2])))
    /\ lpos' = lpos + 1
    /\ lpc' = IF lpos < Len(id_task) THEN "l57" ELSE "l74"
    /\ lpercent' = 0
    /\ ret' = NoValue
    /\ UNCHANGED <<task, pc, trace, now, cells, registry>>

\* Lines 74-88: the list returned.
ListReturn ==
    /\ lpc = "l74"
    /\ ret' = [op |-> "list_task_statuses", value |-> SortedResults(results)]
    /\ lpc' = "idle"
    /\ lpos' = 0
    /\ results' = <<>>
    /\ UNCHANGED <<task, pc, trace, now, cells, registry, lpercent>>

\* ------------------------------------------------------------------- Task
Log(p, events) == trace' = [trace EXCEPT ![p] = trace[p] \o events]
Goto(p, label) == pc' = [pc EXCEPT ![p] = label]
\* A worker step returns nothing to the registry's caller.
WorkerFrame == /\ ret' = NoValue
               /\ UNCHANGED <<task, registry, frame>>

\* Process.start(), called by the parent once the task is constructed.
Start(p) ==
    /\ lpc = "idle"
    /\ pc[p] = "created"
    /\ Goto(p, "l116")
    /\ ret' = NoValue
    /\ UNCHANGED <<task, trace, now, cells, registry, frame>>

\* The outcomes of a Slack message: slack.verbose and slack.error hand the
\* message to the webhook and return whether or not it was delivered.
SlackOutcomes == {"delivered", "failed"}

\* The chain of lines 125-136 with an UPDATE_INDEX task taking the reindex
\* call of the REINDEX branch.
BranchUpdateAsReindex(task_type) ==
    CASE task_type = "REINDEX" -> "l126"
      [] task_type = "UPDATE_INDEX" -> "l127"
      [] task_type = "INGEST_UPSTREAM" -> "l131"
      [] task_type = "LOAD_TEST_DATA" -> "l136"
      [] OTHER -> "l137"

\* The label run goes to once the branch of the task type is chosen (lines
\* 125, 128, 130, 135): the first call of the branch, or line 137 when no
\* branch matches.
Branch(task_type) ==
    CASE task_type = "REINDEX" -> "l126"
      [] task_type = "UPDATE_INDEX" -> "l129"
      [] task_type = "INGEST_UPSTREAM" -> "l131"
      [] task_type = "LOAD_TEST_DATA" -> "l136"
      [] OTHER -> "l137"

\* run, lines 116-136: elasticsearch_connect() and TableIndexer(...), which
\* can fail, and then the if/elif chain on self.task_type.
Connect(p) ==
    /\ pc[p] = "l116"
    /\ \/ /\ Log(p, << <<"elasticsearch_connect">> >>)
          /\ Goto(p, Branch(task[p].task_type))
       \/ /\ Log(p, << <<"elasticsearch_connect">>,
                      <<"exception", "elasticsearch_connect">> >>)
          /\ Goto(p, "l146")
    /\ WorkerFrame
    /\ UNCHANGED <<now, cells>>

\* Line 126 with a delivery failure escaping slack.verbose into run.
VerboseEscalates(p) ==
    /\ pc[p] = "l126"
    /\ \/ /\ Log(p, << <<"slack.verbose", "delivered">> >>)
          /\ Goto(p, "l127")
       \/ /\ Log(p, << <<"slack.verbose", "failed">>,
                      <<"exception", "slack.verbose">> >>)
          /\ Goto(p, "l146")
    /\ WorkerFrame
    /\ UNCHANGED <<now, cells>>

\* run, line 126: slack.verbose(...).
Verbose(p) ==
    /\ pc[p] = "l126"
    /\ \E o \in SlackOutcomes : Log(p, << <<"slack.verbose", o>> >>)
    /\ Goto(p, "l127")
    /\ WorkerFrame
    /\ UNCHANGED <<now, cells>>

\* run, lines 127, 129, 134, 136: the call of the indexer's action.
IndexerCall(p) ==
    CASE pc[p] = "l127" -> <<"indexer.reindex", task[p].model>>
      [] pc[p] = "l129" -> <<"indexer.update", task[p].model, task[p].since_date>>
      [] pc[p] = "l134" -> <<"indexer.reindex", task[p].model>>
      [] pc[p] = "l136" -> <<"indexer.load_test_data", task[p].model>>

InvokeIndexer(p) ==
    /\ pc[p] \in {"l127", "l129", "l134", "l136"}
    /\ Log(p, <<IndexerCall(p)>>)
    /\ Goto(p, "indexer")
    /\ WorkerFrame
    /\ UNCHANGED <<now, cells>>

\* Line 131 followed by the auxiliary reload whatever the dataset.
ReloadUpstreamThenAudioset(p) ==
    /\ pc[p] = "l131"
    /\ \/ /\ Log(p, << <<"reload_upstream", task[p].model, "default">> >>)
          /\ Goto(p, "l133")
       \/ /\ Log(p, << <<"reload_upstream", task[p].model, "default">>,
                      <<"exception", "reload_upstream">> >>)
          /\ Goto(p, "l146")
    /\ WorkerFrame
    /\ UNCHANGED <<now, cells>>

\* run, line 131: reload_upstream(self.model); line 132 chooses what follows.
ReloadUpstream(p) ==
    /\ pc[p] = "l131"
    /\ \/ /\ Log(p, << <<"reload_upstream", task[p].model, "default">> >>)
          /\ Goto(p, IF task[p].model = "audio" THEN "l133" ELSE "l134")
       \/ /\ Log(p, << <<"reload_upstream", task[p].model, "default">>,
                      <<"exception", "reload_upstream">> >>)
          /\ Goto(p, "l146")
    /\ WorkerFrame
    /\ UNCHANGED <<now, cells>>

\* run, line 133: reload_upstream("audioset", approach="basic").
ReloadAudioset(p) ==
    /\ pc[p] = "l133"
    /\ \/ /\ Log(p, << <<"reload_upstream", "audioset", "basic">> >>)
          /\ Goto(p, "l134")
       \/ /\ Log(p, << <<"reload_upstream", "audioset", "basic">>,
                      <<"exception", "reload_upstream">> >>)
          /\ Goto(p, "l146")
    /\ WorkerFrame
    /\ UNCHANGED <<now, cells>>

\* The indexer's action at work: it reports progress through the cells it
\* was constructed with.
IndexerAdvance(p) ==
    /\ pc[p] = "indexer"
    /\ progress[p] < MidProgress
    /\ progress' = [progress EXCEPT ![p] = MidProgress]
    /\ WorkerFrame
    /\ UNCHANGED <<pc, trace, now, finish_time, active_workers>>

\* The indexer's action reports the work complete.
IndexerComplete(p) ==
    /\ pc[p] = "indexer"
    /\ progress[p] < FullProgress
    /\ progress' = [progress EXCEPT ![p] = FullProgress]
    /\ WorkerFrame
    /\ UNCHANGED <<pc, trace, now, finish_time, active_workers>>

\* The indexer's action stamps the finish time and returns to run.
IndexerReturn(p) ==
    /\ pc[p] = "indexer"
    /\ progress[p] = FullProgress
    /\ finish_time' = [finish_time EXCEPT ![p] = now]
    /\ now' = now + 1
    /\ Goto(p, "l137")
    /\ WorkerFrame
    /\ UNCHANGED <<trace, progress, active_workers>>

\* The indexer's action fails before the work is complete.
IndexerRaise(p) ==
    /\ pc[p] = "indexer"
    /\ progress[p] < FullProgress
    /\ Log(p, << <<"exception", "indexer">> >>)
    /\ Goto(p, "l146")
    /\ WorkerFrame
    /\ UNCHANGED <<now, cells>>

\* The outcomes of requests.post(callback_url): a response, or a
\* requests.exceptions.RequestException.
PostOutcomes == {"response", "RequestException"}

\* Lines 137-145 without the inner try: the RequestException reaches the
\* handler of line 146.
CompleteReraising(p) ==
    /\ pc[p] = "l137"
    /\ \/ /\ task[p].callback_url # ""
          /\ Log(p, << <<"logging.info", "exited">>,
                      <<"requests.post", "RequestException">>,
                      <<"exception", "requests.post">> >>)
          /\ Goto(p, "l146")
       \/ /\ IF task[p].callback_url # ""
             THEN Log(p, << <<"logging.info", "exited">>,
                            <<"requests.post", "response">> >>)
             ELSE Log(p, << <<"logging.info", "exited">> >>)
          /\ Goto(p, "done")
    /\ WorkerFrame
    /\ UNCHANGED <<now, cells>>

\* Lines 137-145 without the test of line 138: the POST is made whether or
\* not a callback URL was given.
CompleteAlwaysPosting(p) ==
    /\ pc[p] = "l137"
    /\ \E o \in PostOutcomes :
          Log(p, << <<"logging.info", "exited">>, <<"requests.post", o>> >>)
    /\ Goto(p, "done")
    /\ WorkerFrame
    /\ UNCHANGED <<now, cells>>

\* run, lines 137-145: the completion log and the callback; run returns and
\* the process exits.
Complete(p) ==
    /\ pc[p] = "l137"
    /\ IF task[p].callback_url # ""
       THEN \E o \in PostOutcomes :
               Log(p, << <<"logging.info", "exited">>, <<"requests.post", o>> >>)
       ELSE Log(p, << <<"logging.info", "exited">> >>)
    /\ Goto(p, "done")
    /\ WorkerFrame
    /\ UNCHANGED <<now, cells>>

\* Lines 146-153 without the error report.
ExceptSilent(p) ==
    /\ pc[p] = "l146"
    /\ Log(p, << <<"raise">> >>)
    /\ Goto(p, "crashed")
    /\ WorkerFrame
    /\ UNCHANGED <<now, cells>>

\* Lines 146-153 followed by a retry: after the error report run starts over
\* at the connection.
ExceptRetrying(p) ==
    /\ pc[p] = "l146"
    /\ \E o \in SlackOutcomes : Log(p, << <<"slack.error", o>>, <<"raise">> >>)
    /\ Goto(p, "l116")
    /\ WorkerFrame
    /\ UNCHANGED <<now, cells>>

\* run, lines 146-153: the error report and the re-raise; the process exits.
Except(p) ==
    /\ pc[p] = "l146"
    /\ \E o \in SlackOutcomes : Log(p, << <<"slack.error", o>>, <<"raise">> >>)
    /\ Goto(p, "crashed")
    /\ WorkerFrame
    /\ UNCHANGED <<now, cells>>

Init ==
    /\ task = <<>>
    /\ pc = <<>>
    /\ progress = <<>>
    /\ finish_time = <<>>
    /\ active_workers = <<>>
    /\ trace = <<>>
    /\ now = 1
    /\ id_task = <<>>
    /\ id_action = EmptyDict
    /\ id_progress = EmptyDict
    /\ id_start_time = EmptyDict
    /\ id_finish_time = EmptyDict
    /\ id_active_workers = EmptyDict
    /\ lpc = "idle"
    /\ lpos = 0
    /\ lpercent = 0
    /\ results = <<>>
    /\ ret = NoValue

Next ==
    \/ \E i \in TaskIds, t \in AnyTaskType, m \in Models, u \in CallbackUrls :
          AddTask(i, t, m, u)
    \/ ListTaskStatuses
    \/ \E p \in Procs : Start(p)
    \/ \E p \in Procs : Connect(p)
    \/ \E p \in Procs : Verbose(p)
    \/ \E p \in Procs : InvokeIndexer(p)
    \/ \E p \in Procs : ReloadUpstream(p)
    \/ \E p \in Procs : ReloadAudioset(p)
    \/ \E p \in Procs : IndexerAdvance(p)
    \/ \E p \in Procs : IndexerComplete(p)
    \/ \E p \in Procs : IndexerReturn(p)
    \/ \E p \in Procs : IndexerRaise(p)
    \/ \E p \in Procs : Complete(p)
    \/ \E p \in Procs : Except(p)

Spec == Init /\ [][Next]_vars

\* ------------------------------------------------- read-by-read listing
\* The tasks submitted while a read-by-read list_task_statuses is observed:
\* the two task types whose branches together take every step of run.
RaceTaskTypes == {"REINDEX", "INGEST_UPSTREAM"}
RaceModels == {"audio"}
RaceCallbackUrls == {""}

\* The steps of the tracker's process and of the worker processes with
\* list_task_statuses taken read by read (lines 57 and 58 apart), so that a
\* worker's writes and exit come between the reads of one call.
RaceNext ==
    \/ \E i \in TaskIds, t \in RaceTaskTypes, m \in RaceModels,
           u \in RaceCallbackUrls : AddTask(i, t, m, u)
    \/ ListBegin
    \/ ListReadProgress
    \/ ListAppend
    \/ ListReturn
    \/ \E p \in Procs : Start(p)
    \/ \E p \in Procs : Connect(p)
    \/ \E p \in Procs : Verbose(p)
    \/ \E p \in Procs : InvokeIndexer(p)
    \/ \E p \in Procs : ReloadUpstream(p)
    \/ \E p \in Procs : ReloadAudioset(p)
    \/ \E p \in Procs : IndexerAdvance(p)
    \/ \E p \in Procs : IndexerComplete(p)
    \/ \E p \in Procs : IndexerReturn(p)
    \/ \E p \in Procs : IndexerRaise(p)
    \/ \E p \in Procs : Complete(p)
    \/ \E p \in Procs : Except(p)

RaceSpec == Init /\ [][RaceNext]_vars

\* ---------------------------------------------------------------- claims
\* The list list_task_statuses returned in the step just taken, if it did.
Listed == ret.op = "list_task_statuses"
Statuses == IF Listed THEN ret.value ELSE <<>>
\* The worker registered under the identifier of a record.
WorkerOf(r) == Lookup(id_task, r.task_id)
\* The timestamp a rendered date stands for.
Timestamp(d) == IF d = <<"None">> THEN 0 ELSE d[2]
HasEvent(p, e) == \E i \in 1 .. Len(trace[p]) : trace[p][i] = e
HasCall(p, name) == \E i \in 1 .. Len(trace[p]) : trace[p][i][1] = name
CountCalls(p, name) ==
    Cardinality({i \in 1 .. Len(trace[p]) : trace[p][i][1] = name})

\* C1: in every list list_task_statuses returns, a record's error field is
\* true exactly when the job's percent-complete is below 100 and its worker
\* is not alive; so it is false for an alive worker and for percent 100.
C1_ErrorIffIncompleteAndNotAlive ==
    \A i \in 1 .. Len(Statuses) :
        LET r == Statuses[i]
            p == WorkerOf(r)
        IN /\ r.error <=> (progress[p] < 100 /\ ~IsAlive(p))
           /\ r.error <=> (r.progress < 100 /\ ~r.active)
           /\ IsAlive(p) => ~r.error
           /\ progress[p] = 100 => ~r.error

\* A list that holds an error record of a crashed worker and a record
\* without error of a worker that is alive below 100 percent.
C1_Witness ==
    /\ Listed
    /\ \E i, j \in 1 .. Len(Statuses) :
          /\ Statuses[i].error /\ pc[WorkerOf(Statuses[i])] = "crashed"
          /\ ~Statuses[j].error /\ Statuses[j].active
          /\ Statuses[j].progress = MidProgress

\* C2 (state part): a list returned once a worker of one of the four task
\* types has run to natural completion reports percent 100, a finish time
\* that is set, active false and error false for its job.
C2_CompletedReported ==
    \A i \in 1 .. Len(Statuses) :
        LET r == Statuses[i]
            p == WorkerOf(r)
        IN (pc[p] = "done" /\ task[p].task_type \in TaskTypes) =>
              /\ r.progress = 100
              /\ r.finish_time # <<"None">> /\ Timestamp(r.finish_time) # 0
              /\ r.active = FALSE
              /\ r.error = FALSE

\* C2 (step part): a worker that has run to natural completion stays so, and
\* its cells keep their values, whatever step is taken.
C2_CompletedStays ==
    \A p \in Procs :
        pc[p] = "done" =>
            /\ pc'[p] = "done"
            /\ progress'[p] = progress[p]
            /\ finish_time'[p] = finish_time[p]

\* C2: for every job whose worker runs its action sequence to natural
\* completion, the registry from then on reports percent=100, a non-zero
\* finish time, active=false and error=false, in every later list.
C2_NaturalCompletionReported ==
    [](C2_CompletedReported) /\ [][C2_CompletedStays]_vars

\* A list that reports a job of each of two task types completed.
C2_Witness ==
    /\ Listed
    /\ \E i, j \in 1 .. Len(Statuses) :
          /\ pc[WorkerOf(Statuses[i])] = "done"
          /\ Statuses[i].action = "REINDEX"
          /\ pc[WorkerOf(Statuses[j])] = "done"
          /\ Statuses[j].action = "LOAD_TEST_DATA"

\* C3 (state part): a list returned after a worker exited below 100 percent
\* reports active false, progress below 100 and error true for its job.
C3_CrashedReported ==
    \A i \in 1 .. Len(Statuses) :
        LET r == Statuses[i]
            p == WorkerOf(r)
        IN (Exited(p) /\ progress[p] < 100) =>
              /\ r.active = FALSE
              /\ r.progress < 100
              /\ r.error = TRUE

\* C3 (step part): a worker that exited below 100 percent stays exited below
\* 100 percent.
C3_CrashedStays ==
    \A p \in Procs :
        (Exited(p) /\ progress[p] < 100) =>
            /\ pc'[p] = pc[p]
            /\ progress'[p] = progress[p]

\* C3: for every job whose worker exits before percent-complete reaches 100,
\* every list returned after the exit reports active=false, progress<100 and
\* error=true for that job.
C3_ExitBelowFullReportsError ==
    [](C3_CrashedReported) /\ [][C3_CrashedStays]_vars

\* A list returned after the indexer raised mid-run in an UPDATE_INDEX job on
\* "audio".
C3_Witness ==
    /\ Listed
    /\ \E i \in 1 .. Len(Statuses) :
          LET p == WorkerOf(Statuses[i]) IN
          /\ pc[p] = "crashed"
          /\ task[p].task_type = "UPDATE_INDEX" /\ task[p].model = "audio"
          /\ HasEvent(p, <<"exception", "indexer">>)
          /\ Statuses[i].progress = MidProgress
\* C4: a list returned while a registered job's worker has not been started
\* reports percent=0, finish time unset, active=false and error=false for it.
C4_UnstartedReportsNoError ==
    \A i \in 1 .. Len(Statuses) :
        LET r == Statuses[i] IN
        pc[WorkerOf(r)] = "created" =>
            /\ r.progress = 0
            /\ r.finish_time = <<"None">>
            /\ r.active = FALSE
            /\ r.error = FALSE

\* C5: the list list_task_statuses returns has one record for every
\* registered identifier, in non-decreasing order of the finish timestamps
\* read in the call, so records with an unset (0) finish time come first.
C5_SortedByFinishTime ==
    Listed =>
        /\ Len(Statuses) = Len(id_task)
        /\ {Statuses[i].task_id : i \in 1 .. Len(Statuses)} = Keys(id_task)
        /\ \A i, j \in 1 .. Len(Statuses) :
              i < j => Timestamp(Statuses[i].finish_time)
                          <= Timestamp(Statuses[j].finish_time)
        /\ \A i, j \in 1 .. Len(Statuses) :
              (Statuses[i].finish_time = <<"None">>
                 /\ Statuses[j].finish_time # <<"None">>) => i < j

\* A list of an unfinished job registered second and a finished job
\* registered first: the sort has moved the unfinished one to the front.
C5_Witness ==
    /\ Listed
    /\ Len(Statuses) = 2
    /\ Statuses[1].task_id = id_task[2][1]
    /\ Statuses[1].finish_time = <<"None">>
    /\ Statuses[2].finish_time # <<"None">>

\* The reload and indexer calls of a worker, in the order it made them.
IsDataCall(e) ==
    e[1] \in {"reload_upstream", "indexer.reindex", "indexer.update",
              "indexer.load_test_data"}
DataCalls(p) == SelectSeq(trace[p], IsDataCall)
IsPrefix(a, b) == Len(a) <= Len(b) /\ a = SubSeq(b, 1, Len(a))
IngestSequence(model) ==
    IF model = "audio"
    THEN << <<"reload_upstream", "audio", "default">>,
            <<"reload_upstream", "audioset", "basic">>,
            <<"indexer.reindex", "audio">> >>
    ELSE << <<"reload_upstream", model, "default">>,
            <<"indexer.reindex", model>> >>

\* C6: an INGEST_UPSTREAM job on "audio" calls reload_upstream("audio"),
\* reload_upstream("audioset", basic) and indexer.reindex("audio"), in this
\* order and once each; on another dataset it calls reload_upstream(dataset)
\* and indexer.reindex(dataset), once each, and never the auxiliary reload;
\* when a reload raises, reindex is never called.
C6_IngestUpstreamSequence ==
    \A p \in Procs :
        task[p].task_type = "INGEST_UPSTREAM" =>
            /\ IsPrefix(DataCalls(p), IngestSequence(task[p].model))
            /\ pc[p] \in {"indexer", "l137", "done"} =>
                  DataCalls(p) = IngestSequence(task[p].model)
            /\ HasEvent(p, <<"exception", "reload_upstream">>) =>
                  ~HasCall(p, "indexer.reindex")
            /\ task[p].model # "audio" =>
                  ~HasEvent(p, <<"reload_upstream", "audioset", "basic">>)

\* An INGEST_UPSTREAM job on "audio" and one on "image", both completed.
C6_Witness ==
    \E p, q \in Procs :
        /\ task[p].task_type = "INGEST_UPSTREAM" /\ task[p].model = "audio"
        /\ task[q].task_type = "INGEST_UPSTREAM" /\ task[q].model = "image"
        /\ pc[p] = "done" /\ pc[q] = "done"

\* C7: when a step of run's action sequence raises (the connection
\* included), the worker sends exactly one slack.error message, then
\* re-raises and ends not alive, and never logs completion or posts the
\* callback.
C7_RaiseReportedOnceAndReraised ==
    \A p \in Procs :
        /\ HasCall(p, "exception") =>
              /\ pc[p] \in {"l146", "crashed"}
              /\ ~HasCall(p, "requests.post")
              /\ ~HasCall(p, "logging.info")
        /\ pc[p] = "l146" => HasCall(p, "exception") /\ ~HasCall(p, "slack.error")
        /\ pc[p] = "crashed" =>
              /\ HasCall(p, "exception")
              /\ CountCalls(p, "slack.error") = 1
              /\ trace[p][Len(trace[p]) - 1][1] = "slack.error"
              /\ trace[p][Len(trace[p])] = <<"raise">>
              /\ ~IsAlive(p)

\* A worker crashed by the connection and one crashed by the indexer.
C7_Witness ==
    \E p, q \in Procs :
        /\ pc[p] = "crashed" /\ HasEvent(p, <<"exception", "elasticsearch_connect">>)
        /\ pc[q] = "crashed" /\ HasEvent(q, <<"exception", "indexer">>)

PostFailed(p) == HasEvent(p, <<"requests.post", "RequestException">>)
PostAnswered(p) == HasEvent(p, <<"requests.post", "response">>)

\* C8 (state part): a worker whose callback POST failed has exited normally,
\* with no exception, no re-raise and no slack.error message, and a list
\* reports the same error field for it as for a worker of the same task type
\* whose POST was answered.
C8_PostFailureHarmless ==
    /\ \A p \in Procs :
          PostFailed(p) =>
              /\ pc[p] = "done"
              /\ ~HasCall(p, "exception")
              /\ ~HasCall(p, "raise")
              /\ ~HasCall(p, "slack.error")
    /\ \A i, j \in 1 .. Len(Statuses) :
          LET p == WorkerOf(Statuses[i])
              q == WorkerOf(Statuses[j])
          IN (PostFailed(p) /\ PostAnswered(q)
                 /\ task[p].task_type = task[q].task_type) =>
                /\ Statuses[i].error = Statuses[j].error
                /\ Statuses[i].active = Statuses[j].active
                /\ Statuses[i].progress = Statuses[j].progress

\* C8 (step part): the step that logs completion and posts the callback
\* ends the worker normally and writes none of its cells.
C8_CompletionKeepsCells ==
    \A p \in Procs :
        (pc[p] = "l137" /\ pc'[p] # "l137") =>
            /\ pc'[p] = "done"
            /\ progress'[p] = progress[p]
            /\ finish_time'[p] = finish_time[p]
            /\ active_workers'[p] = active_workers[p]

\* C8: a callback POST that fails after the action sequence completed is not
\* re-raised, sends no slack.error message, lets the worker exit normally and
\* leaves the error field the registry reports as it is after a POST that
\* succeeded.
C8_CallbackFailureSwallowed ==
    [](C8_PostFailureHarmless) /\ [][C8_CompletionKeepsCells]_vars

\* A list of two completed jobs of one task type, one whose POST failed and
\* one whose POST was answered.
C8_Witness ==
    /\ Listed
    /\ \E i, j \in 1 .. Len(Statuses) :
          /\ PostFailed(WorkerOf(Statuses[i]))
          /\ PostAnswered(WorkerOf(Statuses[j]))
          /\ Statuses[i].action = "INGEST_UPSTREAM"
          /\ Statuses[j].action = "INGEST_UPSTREAM"

\* The trace with every Slack message taken as delivered.
AsDelivered(t) ==
    [i \in 1 .. Len(t) |->
        IF t[i][1] \in {"slack.verbose", "slack.error"}
        THEN <<t[i][1], "delivered">> ELSE t[i]]
SlackFailed(p) ==
    HasEvent(p, <<"slack.verbose", "failed">>)
        \/ HasEvent(p, <<"slack.error", "failed">>)

\* C9 (state part): after a "beginning reindex" message that was not
\* delivered the worker is at the indexer.reindex call or has made it as its
\* next call; after an error message that was not delivered it re-raises as
\* it does otherwise; no exception comes from Slack; and a list reports the
\* same active, progress and error for two jobs whose workers differ only in
\* what was delivered.
C9_SlackFailureHarmless ==
    /\ \A p \in Procs : \A i \in 1 .. Len(trace[p]) :
          /\ trace[p][i] = <<"slack.verbose", "failed">> =>
                IF i = Len(trace[p]) THEN pc[p] = "l127"
                ELSE trace[p][i + 1] = <<"indexer.reindex", task[p].model>>
          /\ trace[p][i] = <<"slack.error", "failed">> =>
                /\ i < Len(trace[p]) /\ trace[p][i + 1] = <<"raise">>
                /\ pc[p] = "crashed"
          /\ trace[p][i][1] = "exception" =>
                trace[p][i][2] \in {"elasticsearch_connect", "reload_upstream",
                                    "indexer"}
    /\ \A i, j \in 1 .. Len(Statuses) :
          LET p == WorkerOf(Statuses[i])
              q == WorkerOf(Statuses[j])
          IN (SlackFailed(p) /\ ~SlackFailed(q)
                 /\ task[p].task_type = task[q].task_type
                 /\ task[p].model = task[q].model
                 /\ progress[p] = progress[q]
                 /\ AsDelivered(trace[p]) = trace[q]) =>
                /\ Statuses[i].active = Statuses[j].active
                /\ Statuses[i].error = Statuses[j].error

\* C9 (step part): a step that sends a Slack message writes no cell.
C9_SlackKeepsCells ==
    \A p \in Procs :
        (/\ Len(trace'[p]) > Len(trace[p])
         /\ trace'[p][Len(trace[p]) + 1][1] \in {"slack.verbose", "slack.error"}) =>
            /\ progress'[p] = progress[p]
            /\ finish_time'[p] = finish_time[p]
            /\ active_workers'[p] = active_workers[p]

C10_UnknownTypeRejected ==
    \A p \in Procs :
        task[p].task_type \notin TaskTypes =>
            /\ pc[p] \notin {"l137", "done"}
            /\ ~HasCall(p, "logging.info")
            /\ ~HasCall(p, "requests.post")

\* The calls of run's if/elif chain a worker made, in order, with every Slack
\* message taken as delivered.
IsActionCall(e) == IsDataCall(e) \/ e[1] = "slack.verbose"
ActionCalls(p) == SelectSeq(AsDelivered(trace[p]), IsActionCall)
\* The calls of the branch of a task's type (lines 125-136).
ActionSequence(t) ==
    CASE t.task_type = "REINDEX" ->
            << <<"slack.verbose", "delivered">>, <<"indexer.reindex", t.model>> >>
      [] t.task_type = "UPDATE_INDEX" ->
            << <<"indexer.update", t.model, t.since_date>> >>
      [] t.task_type = "INGEST_UPSTREAM" -> IngestSequence(t.model)
      [] t.task_type = "LOAD_TEST_DATA" ->
            << <<"indexer.load_test_data", t.model>> >>
      [] OTHER -> <<>>

\* C11: every worker first makes its own elasticsearch connection, once, and
\* then makes the calls of the branch of its task type, in order and once
\* each: REINDEX the "beginning reindex" message and indexer.reindex(model)
\* with no reload, UPDATE_INDEX only indexer.update(model, since_date),
\* LOAD_TEST_DATA only indexer.load_test_data(model); it never makes a call
\* of another branch, and none at all when the connection raised.
C11_ActionSequenceOfType ==
    \A p \in Procs :
        /\ trace[p] # <<>> => trace[p][1] = <<"elasticsearch_connect">>
        /\ CountCalls(p, "elasticsearch_connect") <= 1
        /\ pc[p] \notin {"created", "l116"} =>
              CountCalls(p, "elasticsearch_connect") = 1
        /\ IsPrefix(ActionCalls(p), ActionSequence(task[p]))
        /\ pc[p] \in {"indexer", "l137", "done"} =>
              ActionCalls(p) = ActionSequence(task[p])
        /\ HasEvent(p, <<"exception", "elasticsearch_connect">>) =>
              ActionCalls(p) = <<>>
        /\ task[p].task_type \in {"REINDEX", "UPDATE_INDEX", "LOAD_TEST_DATA"} =>
              ~HasCall(p, "reload_upstream")

\* A REINDEX job and an UPDATE_INDEX job, both run to completion.
C11_Witness ==
    \E p, q \in Procs :
        /\ task[p].task_type = "REINDEX" /\ pc[p] = "done"
        /\ task[q].task_type = "UPDATE_INDEX" /\ pc[q] = "done"
        /\ HasCall(p, "slack.verbose") /\ HasCall(q, "indexer.update")

\* C12: a worker posts the completion callback at most once, as the last
\* thing it does and after the completion log, only when every call of its
\* branch was made and none raised (the indexer has returned, with the
\* progress at 100 and the finish time set, when the branch calls it), and
\* only when its callback URL is not empty; a worker without a callback URL
\* never posts.
C12_CallbackOnceAfterSuccess ==
    \A p \in Procs :
        /\ CountCalls(p, "requests.post") <= 1
        /\ task[p].callback_url = "" => ~HasCall(p, "requests.post")
        /\ HasCall(p, "requests.post") =>
              /\ task[p].callback_url # ""
              /\ pc[p] = "done"
              /\ ~HasCall(p, "exception") /\ ~HasCall(p, "raise")
              /\ trace[p][Len(trace[p])][1] = "requests.post"
              /\ trace[p][Len(trace[p]) - 1] = <<"logging.info", "exited">>
              /\ ActionCalls(p) = ActionSequence(task[p])
              /\ ActionSequence(task[p]) # <<>> =>
                    progress[p] = FullProgress /\ finish_time[p] # 0

\* A completed job with a callback URL that posted once, a completed job
\* without one, and no post of the latter.
C12_Witness ==
    \E p, q \in Procs :
        /\ pc[p] = "done" /\ task[p].callback_url # ""
        /\ CountCalls(p, "requests.post") = 1
        /\ task[p].task_type = "LOAD_TEST_DATA"
        /\ pc[q] = "done" /\ task[q].callback_url = ""
        /\ ~HasCall(q, "requests.post")

\* C13: a step in which add_task returns gives back the task_id of the Task
\* it was handed, stores that Task, its action and its cells under the
\* identifier with the clock's value as start time, and does nothing else:
\* the new worker is not started, no worker's state, trace, progress, finish
\* time or active-workers cell changes (the new Task's cells are as its
\* construction left them), and the entries of every other identifier stay
\* as they were.
C13_AddTaskStep ==
    ret'.op = "add_task" =>
        LET p == Len(task')
            id == task'[p].task_id
        IN /\ Len(task') = Len(task) + 1
           /\ ret'.value = id
           /\ Keys(id_task') = Keys(id_task) \cup {id}
           /\ Lookup(id_task', id) = p
           /\ id_action'[id] = task'[p].task_type
           /\ id_start_time'[id] = now
           /\ id_progress'[id] = p /\ id_finish_time'[id] = p
           /\ id_active_workers'[id] = p
           /\ pc'[p] = "created" /\ trace'[p] = <<>>
           /\ progress'[p] = NewCell /\ finish_time'[p] = NewCell
           /\ active_workers'[p] = NewCell
           /\ \A q \in Procs :
                 /\ task'[q] = task[q]
                 /\ pc'[q] = pc[q] /\ trace'[q] = trace[q]
                 /\ progress'[q] = progress[q]
                 /\ finish_time'[q] = finish_time[q]
                 /\ active_workers'[q] = active_workers[q]
           /\ \A k \in Keys(id_task) \ {id} :
                 /\ Lookup(id_task', k) = Lookup(id_task, k)
                 /\ id_action'[k] = id_action[k]
                 /\ id_progress'[k] = id_progress[k]
                 /\ id_start_time'[k] = id_start_time[k]
                 /\ id_finish_time'[k] = id_finish_time[k]
                 /\ id_active_workers'[k] = id_active_workers[k]
           /\ UNCHANGED frame

\* C13 as a property of every step.
C13_AddTaskOnlyStores == [][C13_AddTaskStep]_vars

\* add_task has just returned "t2" while the job registered under "t1" is
\* halfway through its indexer call; the new worker is not started.
C13_Witness ==
    /\ ret = [op |-> "add_task", value |-> "t2"]
    /\ Keys(id_task) = {"t1", "t2"}
    /\ pc[Lookup(id_task, "t1")] = "indexer"
    /\ progress[Lookup(id_task, "t1")] = MidProgress
    /\ pc[Lookup(id_task, "t2")] = "created"
    /\ id_start_time["t2"] = now - 1

\* C14: no job is evicted. Every identifier a Task was ever submitted under
\* is a key of the registry, whatever the state of its worker, and every
\* list list_task_statuses returns has a record for it.
C14_NeverEvicted ==
    /\ {task[p].task_id : p \in Procs} = Keys(id_task)
    /\ Listed =>
          \A p \in Procs :
              \E i \in 1 .. Len(Statuses) : Statuses[i].task_id = task[p].task_id

\* A list with the records of a completed and of a crashed job.
C14_Witness ==
    /\ Listed
    /\ \E i, j \in 1 .. Len(Statuses) :
          /\ Statuses[i].task_id = "t1" /\ Statuses[j].task_id = "t2"
          /\ pc[WorkerOf(Statuses[i])] = "done"
          /\ pc[WorkerOf(Statuses[j])] = "crashed"

\* C15: in every record of a list, the finish time is the None marker
\* exactly when the job's finish-time cell holds 0, and is never the UTC
\* date of 0; a finish time or start time that is not 0 is the UTC date of
\* that very value.
C15_ZeroRendersUnset ==
    \A i \in 1 .. Len(Statuses) :
        LET r == Statuses[i]
            p == WorkerOf(r)
        IN /\ finish_time[p] = 0 <=> r.finish_time = <<"None">>
           /\ r.finish_time # <<"utc", 0>>
           /\ finish_time[p] # 0 => r.finish_time = <<"utc", finish_time[p]>>
           /\ id_start_time[r.task_id] # 0 =>
                 r.start_time = <<"utc", id_start_time[r.task_id]>>
           /\ r.start_time # <<"utc", 0>>

\* A list with one record whose finish time is unset and one whose finish
\* time is a date, both with a start date.
C15_Witness ==
    /\ Listed
    /\ \E i, j \in 1 .. Len(Statuses) :
          /\ Statuses[i].finish_time = <<"None">>
          /\ Statuses[j].finish_time = <<"utc", finish_time[WorkerOf(Statuses[j])]>>
          /\ finish_time[WorkerOf(Statuses[j])] > 0
          /\ Statuses[i].start_time[1] = "utc"
          /\ Statuses[j].start_time[1] = "utc"

\* C16: with list_task_statuses reading percent-complete (line 57) and
\* liveness (line 58) in separate steps, between which the workers take
\* theirs, no list reports error=true for a job of one of the four task types
\* whose worker was started before the call and has run to natural
\* completion (progress 100, finish time set, run returned).
C16_NoErrorUnderInterleaving ==
    \A i \in 1 .. Len(Statuses) :
        LET r == Statuses[i]
            p == WorkerOf(r)
        IN (/\ pc[p] = "done"
            /\ task[p].task_type \in TaskTypes
            /\ progress[p] = FullProgress /\ finish_time[p] # 0) =>
              r.error = FALSE

\* C17: every worker that has exited has either progress 100 and a finish
\* time that is set, or progress below 100 and a finish time that is unset;
\* and a worker whose run returned without raising has progress 100 and a
\* finish time that is set.
C17_ExitedCompletedOrCrashed ==
    \A p \in Procs :
        /\ Exited(p) =>
              \/ progress[p] = FullProgress /\ finish_time[p] # 0
              \/ progress[p] < FullProgress /\ finish_time[p] = 0
        /\ pc[p] = "done" =>
              progress[p] = FullProgress /\ finish_time[p] # 0

\* C18 (state part): the re-raise and the completion log end the worker (run
\* is not entered again), and a list returned after a worker exited reports
\* active false, the progress and the finish time its cells hold, and the
\* error these give.
C18_TerminatedReported ==
    /\ \A p \in Procs :
          (HasCall(p, "raise") \/ HasCall(p, "logging.info")) => Exited(p)
    /\ \A i \in 1 .. Len(Statuses) :
          LET r == Statuses[i]
              p == WorkerOf(r)
          IN Exited(p) =>
                /\ r.active = FALSE
                /\ r.progress = progress[p]
                /\ r.finish_time = RenderDate(finish_time[p])
                /\ r.error = (progress[p] < FullProgress)

\* C18 (step part): no step changes the state, the trace, the progress or
\* the finish time of a worker that has exited.
C18_TerminatedStays ==
    \A p \in Procs :
        Exited(p) =>
            /\ pc'[p] = pc[p]
            /\ trace'[p] = trace[p]
            /\ progress'[p] = progress[p]
            /\ finish_time'[p] = finish_time[p]

\* C18: once a job's worker has exited it is never alive again, its progress
\* and finish time never change, and so every later list reports the same
\* active, progress, error and finish_time for it.
C18_TerminatedImmutable ==
    [](C18_TerminatedReported) /\ [][C18_TerminatedStays]_vars

\* A list of a job that completed and of a job that was submitted after the
\* first one finished and crashed: both are reported from cells that have
\* not moved since the exits.
C18_Witness ==
    /\ Listed
    /\ \E i, j \in 1 .. Len(Statuses) :
          LET p == WorkerOf(Statuses[i])
              q == WorkerOf(Statuses[j])
          IN /\ pc[p] = "done" /\ finish_time[p] # 0
             /\ pc[q] = "crashed"
             /\ id_start_time[Statuses[j].task_id] > finish_time[p]
             /\ Statuses[i].finish_time = <<"utc", finish_time[p]>>
             /\ Statuses[j].error /\ ~Statuses[i].error

\* C19 (the call): a step in which list_task_statuses returns changes no
\* cell, no worker's state or trace, no key and no value of the registry, and
\* so no start time.
C19_ListingObserves ==
    ret'.op = "list_task_statuses" =>
        UNCHANGED <<task, pc, trace, now, cells, registry>>

\* C19 (the writer): a step that changes a cell of a job is a step of that
\* job's worker, alive and inside its indexer call; it changes no cell, state
\* or trace of another job, and it is no return of the tracker.
C19_SingleWriter ==
    \A p \in Procs :
        (\/ progress'[p] # progress[p]
         \/ finish_time'[p] # finish_time[p]
         \/ active_workers'[p] # active_workers[p]) =>
            /\ IsAlive(p) /\ pc[p] = "indexer"
            /\ ret'.op = "none"
            /\ UNCHANGED registry
            /\ \A q \in Procs \ {p} :
                  /\ pc'[q] = pc[q] /\ trace'[q] = trace[q]
                  /\ progress'[q] = progress[q]
                  /\ finish_time'[q] = finish_time[q]
                  /\ active_workers'[q] = active_workers[q]

\* C19: list_task_statuses only observes, and only a job's own worker
\* writes the job's cells.
C19_ListingIsPureObserver ==
    [][C19_ListingObserves /\ C19_SingleWriter]_vars

\* list_task_statuses has just returned while one worker is halfway through
\* its indexer call and another has not been started: both are as they were.
C19_Witness ==
    /\ Listed
    /\ \E i, j \in 1 .. Len(Statuses) :
          LET p == WorkerOf(Statuses[i])
              q == WorkerOf(Statuses[j])
          IN /\ pc[p] = "indexer" /\ progress[p] = MidProgress
             /\ Statuses[i].active /\ Statuses[i].progress = MidProgress
             /\ pc[q] = "created" /\ ~Statuses[j].active

\* The worker of the latest Task submitted under an identifier.
LatestOf(id) ==
    CHOOSE p \in Procs :
        /\ task[p].task_id = id
        /\ \A q \in Procs : task[q].task_id = id => q <= p

\* C20 (state part): the six dicts have the same keys, each once; every key
\* holds the latest Task submitted under it, that Task's action and cells;
\* and a list has exactly one record for every identifier submitted, made
\* from the latest Task's action and cells.
C20_OneEntryPerId ==
    /\ Len(id_task) = Cardinality(Keys(id_task))
    /\ Keys(id_task) = {task[p].task_id : p \in Procs}
    /\ DOMAIN id_action = Keys(id_task)
    /\ DOMAIN id_progress = Keys(id_task)
    /\ DOMAIN id_start_time = Keys(id_task)
    /\ DOMAIN id_finish_time = Keys(id_task)
    /\ DOMAIN id_active_workers = Keys(id_task)
    /\ \A k \in Keys(id_task) :
          /\ Lookup(id_task, k) = LatestOf(k)
          /\ id_action[k] = task[LatestOf(k)].task_type
          /\ id_progress[k] = LatestOf(k)
          /\ id_finish_time[k] = LatestOf(k)
          /\ id_active_workers[k] = LatestOf(k)
    /\ Listed =>
          /\ Len(Statuses) = Cardinality({task[p].task_id : p \in Procs})
          /\ \A i, j \in 1 .. Len(Statuses) :
                Statuses[i].task_id = Statuses[j].task_id => i = j
          /\ \A i \in 1 .. Len(Statuses) :
                LET r == Statuses[i]
                    p == LatestOf(r.task_id)
                IN /\ r.action = task[p].task_type
                   /\ r.progress = progress[p]
                   /\ r.active = IsAlive(p)
                   /\ r.finish_time = RenderDate(finish_time[p])

\* C20 (step part): add_task under an identifier that is registered keeps
\* the number of entries and gives the identifier the clock's value as its
\* new start time.
C20_ResubmitReplaces ==
    (ret'.op = "add_task" /\ ret'.value \in Keys(id_task)) =>
        /\ Len(id_task') = Len(id_task)
        /\ Keys(id_task') = Keys(id_task)
        /\ Lookup(id_task', ret'.value) = Len(task')
        /\ id_start_time'[ret'.value] = now
        /\ id_start_time'[ret'.value] > id_start_time[ret'.value]

\* C20: the six dicts always have the same key set, a list has one record
\* for every distinct identifier submitted, and submitting a registered
\* identifier replaces its Task, action, cells and start time.
C20_OneRecordPerIdentifier ==
    [](C20_OneEntryPerId) /\ [][C20_ResubmitReplaces]_vars

\* A list after a second Task of another type was submitted under the
\* identifier of a Task whose worker is still running: one record, made
\* from the second Task.
C20_Witness ==
    /\ Listed
    /\ Len(task) = 2 /\ task[1].task_id = task[2].task_id
    /\ task[1].task_type # task[2].task_type
    /\ pc[1] = "indexer" /\ progress[1] = MidProgress
    /\ Len(Statuses) = 1
    /\ Statuses[1].action = task[2].task_type
    /\ Statuses[1].progress = 0
====
